---- MODULE Spec2Model ----
(***************************************************************************)
(* Behaviour-tree composite nodes for Node-RED: bt-sequence, bt-parallel   *)
(* and bt-repeat.  Each coordinator dispatches work items to child nodes,  *)
(* and discovers their outcome by polling a record kept in the global      *)
(* context (the Blackboard).                                               *)
(*                                                                         *)
(* The global context's memory store keeps values by reference, so the     *)
(* array a coordinator stores under `child_status` of its record is the    *)
(* very array object `node.child_status` points to.  The field `aliased`   *)
(* of a node tells whether the two are the same object; every write goes   *)
(* through the operators below that keep both views of one object equal.   *)
(***************************************************************************)
EXTENDS Integers, Sequences, FiniteSets, TLC

VARIABLES deployed, \* the coordinator the flow under study contains
          seq,      \* the bt-sequence node's fields
          par,      \* the bt-parallel node's fields
          rep,      \* the bt-repeat node's fields
          global,   \* the global context: one field per key
          pending,  \* work items sent to children that have not reported yet
          run,      \* number of triggers accepted so far
          sent,     \* tags of the work items sent since the last accepted trigger
          obs,      \* outcomes the poll has read since the last accepted trigger
          reported, \* child reports written since the last accepted trigger
          threw,    \* a handler raised a TypeError
          last      \* the handler that ran last

vars == <<deployed, seq, par, rep, global, pending, run, sent, obs, reported, threw, last>>

(* ------------------------------ bounds -------------------------------- *)
\* most outputs of a bt-sequence node
MaxSeqChildren == 3
\* most outputs of a bt-parallel node
MaxParChildren == 2
\* most triggers a node accepts
MaxRuns == 2
\* most work items a bt-repeat node sends in one run
MaxDispatch == 4

(* ------------------------------ values -------------------------------- *)
Outcome == {"success", "failure"}

\* How a child stores its outcome: by assigning into the object it read from
\* the context, or by storing a fresh copy of it.
WriteStyle == {"inplace", "copy"}

Undefined == [type |-> "undefined"]

NoFields == [k \in {} |-> "none"]

\* {...x}: the own fields of x, none for undefined
Spread(x) == IF x = Undefined THEN NoFields ELSE x

\* {...a, ...b}
Merge(a, b) ==
    [k \in (DOMAIN a) \cup (DOMAIN b) |-> IF k \in DOMAIN b THEN b[k] ELSE a[k]]

HasField(x, f) == x # Undefined /\ f \in DOMAIN x

\* Array(n).fill(v), indexed from 0
Filled(n, v) == [i \in 0..(n - 1) |-> v]

\* the indices of cs holding st, in increasing order (forEach + push)
Indices(cs, st) ==
    LET n == Cardinality(DOMAIN cs)
    IN  SelectSeq([i \in 1..n |-> i - 1], LAMBDA i : cs[i] = st)

CountOf(cs, st) == Cardinality({i \in DOMAIN cs : cs[i] = st})

\* what a handler works on: the node, the context, and what it emits
World(node, g) == [node |-> node, g |-> g, sent |-> <<>>, obs |-> <<>>, threw |-> FALSE]

(* ============================ bt-sequence ============================== *)

\* node.child_status[i] = v: seen through the record too when it is the same array
SeqSetSlot(w, i, v) ==
    LET w1 == [w EXCEPT !.node.child_status[i] = v]
    IN  IF w.node.aliased /\ HasField(w.g.sequence_result, "child_status")
        THEN [w1 EXCEPT !.g.sequence_result.child_status[i] = v]
        ELSE w1

\* mutant of Seq_finishExecution: the child-signal key is not written
Seq_finishExecution_NoChildSignal(w, final_status) ==
    [w EXCEPT !.node.is_completed = TRUE,
              !.node.is_running = FALSE,
              !.node.timer = FALSE,
              !.node.aliased = TRUE,
              !.g.sequence_result = [type |-> "sequence",
                                     status |-> final_status,
                                     total_children |-> w.node.child_count,
                                     completed_children |-> w.node.current_index + 1,
                                     success_indices |-> Indices(w.node.child_status, "success"),
                                     failure_indices |-> Indices(w.node.child_status, "failure"),
                                     child_status |-> w.node.child_status]]

Seq_finishExecution(w, final_status) ==
    LET cs == w.node.child_status
        rec == [type |-> "sequence",
                status |-> final_status,
                total_children |-> w.node.child_count,
                completed_children |-> w.node.current_index + 1,
                success_indices |-> Indices(cs, "success"),
                failure_indices |-> Indices(cs, "failure"),
                child_status |-> cs]
    IN  [w EXCEPT !.node.is_completed = TRUE,
                  !.node.is_running = FALSE,
                  !.node.timer = FALSE,
                  !.node.aliased = TRUE,
                  !.g.sequence_result = rec,
                  !.g.child_result = final_status]

\* mutant of Seq_allDone: the bound test is off by one
Seq_allDone_OffByOne(idx, n) == idx + 1 >= n

\* node.current_index >= node.child_count
Seq_allDone(idx, n) == idx >= n

Seq_executeNextChild(w) ==
    IF ~w.node.is_running \/ w.node.is_completed THEN w
    ELSE
      LET idx == w.node.current_index + 1
          w1 == [w EXCEPT !.node.current_index = idx]
      IN  IF Seq_allDone(idx, w.node.child_count) THEN Seq_finishExecution(w1, "success")
          ELSE
            LET w2 == SeqSetSlot(w1, idx, "running")
                rec == Merge(Spread(w2.g.sequence_result),
                             [current_index |-> idx,
                              child_status |-> w2.node.child_status,
                              status |-> "running"])
            IN  [w2 EXCEPT !.sent = Append(@, idx),
                           !.node.aliased = TRUE,
                           !.g.sequence_result = rec,
                           !.g.child_result = "running"]

\* mutant of Seq_onChildStatus: a failure does not stop the sequence
Seq_onChildStatus_NoShortCircuit(w, child_status) == Seq_executeNextChild(w)

\* what the poll does with the status it read for the current slot
Seq_onChildStatus(w, child_status) ==
    IF child_status = "success" THEN Seq_executeNextChild(w)
    ELSE Seq_finishExecution(w, "failure")

Seq_check_child_state(w) ==
    IF ~w.node.is_running \/ w.node.is_completed THEN w
    ELSE IF w.node.current_index < 0 \/ w.node.current_index >= w.node.child_count THEN w
    ELSE
      LET global_state == Spread(w.g.sequence_result)
          idx == w.node.current_index
      IN  IF "child_status" \notin DOMAIN global_state
          THEN [w EXCEPT !.threw = TRUE]   \* undefined[idx]: TypeError
          ELSE
            LET child_status == global_state.child_status[idx]
            IN  IF child_status \notin Outcome THEN w
                ELSE
                  LET w1 == SeqSetSlot(w, idx, child_status)
                      rec == Merge(global_state, [child_status |-> w1.node.child_status])
                      w2 == [w1 EXCEPT !.node.aliased = TRUE,
                                       !.g.sequence_result = rec,
                                       !.obs = Append(@, [tag |-> idx, st |-> child_status])]
                  IN  Seq_onChildStatus(w2, child_status)

Seq_input(w) ==
    LET n == w.node.child_count
        cs0 == Filled(n, "waiting")
        rec == [type |-> "sequence",
                status |-> "running",
                current_index |-> -1,
                total_children |-> n,
                child_status |-> cs0]
        w1 == [w EXCEPT !.node.is_running = TRUE,
                        !.node.is_completed = FALSE,
                        !.node.current_index = -1,
                        !.node.child_status = cs0,
                        !.node.aliased = TRUE,
                        !.node.timer = FALSE,
                        !.g.sequence_result = rec,
                        !.g.child_result = "running"]
        w2 == Seq_executeNextChild(w1)
    IN  [w2 EXCEPT !.node.timer = TRUE]

Seq_close(w) ==
    [w EXCEPT !.node.is_running = FALSE,
              !.node.is_completed = TRUE,
              !.node.timer = FALSE]

\* a child of the sequence stores its outcome in its slot of the record
SeqChildWrite(w, i, st, style) ==
    LET w1 == [w EXCEPT !.g.sequence_result.child_status[i] = st]
    IN  IF style = "copy" THEN [w1 EXCEPT !.node.aliased = FALSE]
        ELSE IF w.node.aliased THEN [w1 EXCEPT !.node.child_status[i] = st]
        ELSE w1

(* ============================ bt-parallel ============================== *)

Decision(c, st) == [is_complete |-> c, final_status |-> st]

\* mutant of Par_all_success: a failure is acted on only once every child is done
Par_all_success_WaitsForAll(success_count, failure_count, child_count) ==
    IF success_count + failure_count = child_count
    THEN Decision(TRUE, IF failure_count > 0 THEN "failure" ELSE "success")
    ELSE Decision(FALSE, "failure")

\* case "all_success"
Par_all_success(success_count, failure_count, child_count) ==
    IF failure_count > 0 THEN Decision(TRUE, "failure")
    ELSE IF success_count = child_count THEN Decision(TRUE, "success")
    ELSE Decision(FALSE, "failure")

\* mutant of Par_any_success: the first failure ends the run when nothing succeeded yet
Par_any_success_FailsEarly(success_count, failure_count, child_count) ==
    IF success_count > 0 THEN Decision(TRUE, "success")
    ELSE IF failure_count > 0 \/ failure_count = child_count THEN Decision(TRUE, "failure")
    ELSE Decision(FALSE, "failure")

\* case "any_success"
Par_any_success(success_count, failure_count, child_count) ==
    IF success_count > 0 THEN Decision(TRUE, "success")
    ELSE IF failure_count = child_count THEN Decision(TRUE, "failure")
    ELSE Decision(FALSE, "failure")

\* mutant of Par_all_complete: success needs every child to succeed
Par_all_complete_NeedsAll(success_count, failure_count, child_count) ==
    IF success_count + failure_count = child_count
    THEN Decision(TRUE, IF success_count = child_count THEN "success" ELSE "failure")
    ELSE Decision(FALSE, "failure")

\* case "all_complete"
Par_all_complete(success_count, failure_count, child_count) ==
    IF success_count + failure_count = child_count
    THEN Decision(TRUE, IF success_count > 0 THEN "success" ELSE "failure")
    ELSE Decision(FALSE, "failure")

\* switch (node.completion_type)
Par_decide(completion_type, success_count, failure_count, child_count) ==
    CASE completion_type = "all_success" ->
             Par_all_success(success_count, failure_count, child_count)
      [] completion_type = "any_success" ->
             Par_any_success(success_count, failure_count, child_count)
      [] completion_type = "all_complete" ->
             Par_all_complete(success_count, failure_count, child_count)
      [] OTHER -> Decision(FALSE, "failure")

Par_check_child_status(w) ==
    IF ~w.node.is_running \/ w.node.is_completed THEN w
    ELSE
      LET global_state == Spread(w.g.parallel_result)
          \* node.child_status = global_state.child_status: the node takes the record's array
          w1 == IF "child_status" \in DOMAIN global_state
                THEN [w EXCEPT !.node.child_status = global_state.child_status,
                               !.node.aliased = TRUE]
                ELSE w
          cs == w1.node.child_status
          success_count == CountOf(cs, "success")
          failure_count == CountOf(cs, "failure")
          \* node.active_children is written here and read nowhere: left out
          w2 == w1
          d == Par_decide(w.node.completion_type, success_count, failure_count,
                          w.node.child_count)
      IN  IF d.is_complete
          THEN [w2 EXCEPT !.node.is_completed = TRUE,
                          !.node.is_running = FALSE,
                          !.node.timer = FALSE,
                          !.node.aliased = TRUE,
                          !.g.parallel_result = [type |-> "parallel",
                                                 status |-> d.final_status,
                                                 child_status |-> cs],
                          !.g.child_result = d.final_status]
          ELSE w2

Par_input(w) ==
    LET n == w.node.child_count
        cs1 == Filled(n, "running")   \* fill("waiting"), then every slot set to "running"
    IN  [w EXCEPT !.node.is_running = TRUE,
                  !.node.is_completed = FALSE,
                  !.node.child_status = cs1,
                  !.node.aliased = TRUE,
                  !.node.timer = TRUE,
                  \* the record holds node.child_status itself, so it shows "running" too
                  !.g.parallel_result = [type |-> "parallel",
                                         status |-> "running",
                                         child_status |-> cs1],
                  !.g.child_result = "running",
                  !.sent = [j \in 1..n |-> j - 1]]

Par_close(w) ==
    [w EXCEPT !.node.is_running = FALSE,
              !.node.is_completed = TRUE,
              !.node.timer = FALSE]

\* A child of the parallel node stores its outcome in its slot of the record.
\* The poll takes over whatever array the record holds, and the trigger refills
\* the node's array, so no handler reads node.child_status between a report and
\* the next poll: the child's write is modelled as the assignment into the
\* shared array.
ParChildWrite(w, i, st) ==
    LET w1 == [w EXCEPT !.g.parallel_result.child_status[i] = st]
    IN  IF w.node.aliased THEN [w1 EXCEPT !.node.child_status[i] = st] ELSE w1

(* ============================= bt-repeat =============================== *)

\* config.repeatCount || 3
DefaultRepeatCount == 3

\* the hole left by success_records.length = 1 (iteration numbers start at 1)
EmptySlot == 0

Digits == <<"0", "1", "2", "3", "4", "5", "6", "7", "8", "9">>

IsDigit(c) == \E d \in 1..Len(Digits) : Digits[d] = c

DigitVal(c) == (CHOOSE d \in 1..Len(Digits) : Digits[d] = c) - 1

RECURSIVE ParseDigits(_, _, _)
ParseDigits(text, i, acc) ==
    IF i > Len(text) \/ ~IsDigit(text[i]) THEN acc
    ELSE ParseDigits(text, i + 1, acc * 10 + DigitVal(text[i]))

NaN == [nan |-> TRUE, val |-> 0]

\* parseInt(text, 10): an optional sign, then the leading digits; NaN without any
ParseInt(text) ==
    LET signed == Len(text) >= 1 /\ text[1] \in {"-", "+"}
        start == IF signed THEN 2 ELSE 1
    IN  IF start > Len(text) \/ ~IsDigit(text[start]) THEN NaN
        ELSE [nan |-> FALSE,
              val |-> (IF signed /\ text[1] = "-" THEN -1 ELSE 1)
                          * ParseDigits(text, start, 0)]

\* the context value under the override key: absent, or the text of a value
NoValue == [defined |-> FALSE, text |-> <<>>]
Text(t) == [defined |-> TRUE, text |-> t]

\* node.repeat_count after the try block of the input handler
Rep_readOverride(repeat_count, globalRepeatCount) ==
    IF globalRepeatCount.defined
    THEN LET parsedCount == ParseInt(globalRepeatCount.text)
         IN  IF ~parsedCount.nan /\ parsedCount.val >= 0 THEN parsedCount.val
             ELSE repeat_count
    ELSE repeat_count

\* mutant of Rep_final_status: every mode takes the last outcome
Rep_final_status_LastOnly(terminationCondition, last_status, success_records) ==
    last_status

\* final_status of finishExecution
Rep_final_status(terminationCondition, last_status, success_records) ==
    IF terminationCondition = "exitOnFailure" THEN last_status
    ELSE IF Len(success_records) > 0 THEN "success" ELSE "failure"

Rep_finishExecution(w, last_status) ==
    LET final_status == Rep_final_status(w.node.terminationCondition, last_status,
                                         w.node.success_records)
        rec == [type |-> "repeat",
                status |-> final_status,
                total_count |-> w.node.repeat_count,
                success_count |-> Len(w.node.success_records),
                failure_count |-> Len(w.node.failure_records),
                success_records |-> w.node.success_records,
                failure_records |-> w.node.failure_records]
    IN  [w EXCEPT !.node.is_completed = TRUE,
                  !.node.is_running = FALSE,
                  !.node.timer = FALSE,
                  !.g.repeat_result = rec,
                  !.g.child_result = final_status]

Rep_executeChild(w) ==
    IF ~w.node.is_running \/ w.node.is_completed THEN w
    ELSE
      LET count == w.node.current_count + 1
          \* the spread keeps every other field of the record, child_status included
          rec == Merge(Spread(w.g.repeat_result),
                       [current_count |-> count, status |-> "running"])
      IN  [w EXCEPT !.node.current_count = count,
                    !.sent = Append(@, count),
                    !.g.repeat_result = rec,
                    !.g.child_result = "running"]

\* mutant of Rep_continue_untilSuccess: the count ceiling stops the run
Rep_continue_untilSuccess_Capped(child_status, current_count, repeat_count) ==
    child_status # "success" /\ current_count < repeat_count

\* case 'untilSuccess'
Rep_continue_untilSuccess(child_status, current_count, repeat_count) ==
    child_status # "success"

\* mutant of Rep_continue_exitOnFailure: the outcome is not looked at
Rep_continue_exitOnFailure_IgnoresOutcome(child_status, current_count, repeat_count) ==
    current_count < repeat_count

\* case 'exitOnFailure'
Rep_continue_exitOnFailure(child_status, current_count, repeat_count) ==
    child_status = "success" /\ current_count < repeat_count

\* mutant of Rep_continue_fixed: one iteration too many
Rep_continue_fixed_OneMore(child_status, current_count, repeat_count) ==
    current_count <= repeat_count

\* case 'fixed' and default
Rep_continue_fixed(child_status, current_count, repeat_count) ==
    current_count < repeat_count

\* switch (node.terminationCondition)
Rep_should_continue(terminationCondition, child_status, current_count, repeat_count) ==
    CASE terminationCondition = "untilSuccess" ->
             Rep_continue_untilSuccess(child_status, current_count, repeat_count)
      [] terminationCondition = "exitOnFailure" ->
             Rep_continue_exitOnFailure(child_status, current_count, repeat_count)
      [] OTHER ->
             Rep_continue_fixed(child_status, current_count, repeat_count)

Rep_check_child_state(w) ==
    IF ~w.node.is_running \/ w.node.is_completed THEN w
    ELSE
      LET global_state == Spread(w.g.repeat_result)
      IN  IF "child_status" \notin DOMAIN global_state
             \/ global_state.child_status = "running"
          THEN w
          ELSE
            LET child_status == global_state.child_status
                count == w.node.current_count
                w1 == IF child_status = "success"
                      THEN [w EXCEPT !.node.success_records = Append(@, count)]
                      ELSE [w EXCEPT !.node.failure_records = Append(@, count)]
                w2 == [w1 EXCEPT !.obs = Append(@, [tag |-> count, st |-> child_status])]
            IN  IF Rep_should_continue(w.node.terminationCondition, child_status,
                                       count, w.node.repeat_count)
                THEN Rep_executeChild(w2)
                ELSE Rep_finishExecution(w2, child_status)

\* mutant of Rep_busy: no trigger is turned away
Rep_busy_Never(node) == FALSE

\* if (node.is_running): the trigger is dropped with a warning
Rep_busy(node) == node.is_running

\* the input handler once the is_running guard has let the trigger in
Rep_input(w) ==
    LET count == Rep_readOverride(w.node.repeat_count, w.g.repeat_count)
        w1 == [w EXCEPT !.node.is_running = TRUE,
                        !.node.is_completed = FALSE,
                        !.node.current_count = 0,
                        !.node.success_records = <<>>,
                        !.node.failure_records = <<>>,
                        !.node.repeat_count = count]
    IN  IF count = 0
        THEN Rep_finishExecution([w1 EXCEPT !.node.success_records = <<EmptySlot>>],
                                 "success")
        ELSE
          LET rec == [type |-> "repeat",
                      status |-> "running",
                      current_count |-> 0,
                      total_count |-> count]
              w2 == [w1 EXCEPT !.g.repeat_result = rec,
                               !.g.child_result = "running",
                               !.node.timer = FALSE]
              w3 == Rep_executeChild(w2)
          IN  [w3 EXCEPT !.node.timer = TRUE]

\* mutant of Rep_close: the interval timer is left running
Rep_close_KeepsTimer(w) ==
    [w EXCEPT !.node.is_running = FALSE,
              !.node.is_completed = TRUE]

Rep_close(w) ==
    [w EXCEPT !.node.is_running = FALSE,
              !.node.is_completed = TRUE,
              !.node.timer = FALSE]

\* the child of the repeat node stores its outcome in the record's child_status
RepChildWrite(w, st) ==
    [w EXCEPT !.g.repeat_result = Merge(Spread(@), [child_status |-> st])]

(* ======================= initial states, actions ======================= *)

SeqNode0(n) ==
    [child_count |-> n,
     timer |-> FALSE,
     is_running |-> FALSE,
     is_completed |-> FALSE,
     current_index |-> -1,
     child_status |-> Filled(n, "waiting"),
     aliased |-> FALSE]

ParNode0(n, ct) ==
    [child_count |-> n,
     completion_type |-> ct,
     timer |-> FALSE,
     is_running |-> FALSE,
     is_completed |-> FALSE,
     child_status |-> Filled(n, "waiting"),
     aliased |-> FALSE]

\* A value of config.repeatCount: the number val, or a text that denotes it (the
\* editor may store either).  The comparisons of the handlers (<, ==) take a
\* numeric text as its number, so node.repeat_count holds val in both cases.
Num(val) == [text |-> FALSE, val |-> val]
NumText(val) == [text |-> TRUE, val |-> val]

\* the operand of || is falsy: the number 0 (the text "0" is not)
Falsy(repeatCount) == ~repeatCount.text /\ repeatCount.val = 0

\* the BTRepeatNode constructor
RepNode0(repeatCount, tc) ==
    [config_repeatCount |-> repeatCount,
     repeat_count |-> IF Falsy(repeatCount) THEN DefaultRepeatCount ELSE repeatCount.val,
     terminationCondition |-> tc,
     timer |-> FALSE,
     is_running |-> FALSE,
     is_completed |-> FALSE,
     current_count |-> 0,
     success_records |-> <<>>,
     failure_records |-> <<>>]

Global0 ==
    [sequence_result |-> Undefined,
     parallel_result |-> Undefined,
     repeat_result |-> Undefined,
     child_result |-> "undefined",
     repeat_count |-> NoValue]

Items(kind, tags, r) == {[kind |-> kind, tag |-> tags[j], run |-> r] : j \in 1..Len(tags)}

InitCommon ==
    /\ global = Global0
    /\ pending = {}
    /\ run = 0
    /\ sent = <<>>
    /\ obs = <<>>
    /\ reported = {}
    /\ threw = FALSE
    /\ last = "init"

InitSeq ==
    /\ InitCommon
    /\ deployed = "sequence"
    /\ \E n \in 0..MaxSeqChildren : seq = SeqNode0(n)
    /\ par = ParNode0(0, "all_success")
    /\ rep = RepNode0(Num(DefaultRepeatCount), "fixed")

\* node.on('input') of bt-sequence
SeqInput ==
    /\ run < MaxRuns
    /\ LET w == Seq_input(World(seq, global))
       IN  /\ seq' = w.node
           /\ global' = w.g
           /\ pending' = pending \cup Items("sequence", w.sent, run + 1)
           /\ sent' = w.sent
           /\ obs' = <<>>
           /\ reported' = {}
           /\ threw' = (threw \/ w.threw)
    /\ run' = run + 1
    /\ last' = "input"
    /\ UNCHANGED <<deployed, par, rep>>

\* one tick of the setInterval timer of bt-sequence
SeqPoll ==
    /\ seq.timer
    /\ LET w == Seq_check_child_state(World(seq, global))
       IN  /\ seq' = w.node
           /\ global' = w.g
           /\ pending' = pending \cup Items("sequence", w.sent, run)
           /\ sent' = sent \o w.sent
           /\ obs' = obs \o w.obs
           /\ threw' = (threw \/ w.threw)
    /\ last' = "poll"
    /\ UNCHANGED <<deployed, par, rep, run, reported>>

\* node.on('close') of bt-sequence
SeqClose ==
    /\ LET w == Seq_close(World(seq, global))
       IN  seq' = w.node /\ global' = w.g
    /\ last' = "close"
    /\ UNCHANGED <<deployed, par, rep, pending, run, sent, obs, reported, threw>>

\* a dispatched child finishes and reports
SeqChildReport ==
    \E item \in pending, st \in Outcome, style \in WriteStyle :
        /\ item.kind = "sequence"
        /\ HasField(global.sequence_result, "child_status")
        /\ LET w == SeqChildWrite(World(seq, global), item.tag, st, style)
           IN  seq' = w.node /\ global' = w.g
        /\ pending' = pending \ {item}
        /\ reported' = reported \cup {[tag |-> item.tag, run |-> item.run, st |-> st]}
        /\ last' = "report"
        /\ UNCHANGED <<deployed, par, rep, run, sent, obs, threw>>

NextSeq == SeqInput \/ SeqPoll \/ SeqClose \/ SeqChildReport

SpecSeq == InitSeq /\ [][NextSeq]_vars

\* what another flow may leave under the sequence's key: nothing, or an object
\* without a child_status field
LostRecords == {Undefined, [type |-> "sequence", status |-> "running"]}

\* another flow removes or overwrites the record under the sequence's key
SeqRecordLost ==
    /\ \E v \in LostRecords :
          /\ global.sequence_result # v
          /\ global' = [global EXCEPT !.sequence_result = v]
    /\ seq' = [seq EXCEPT !.aliased = FALSE]
    /\ last' = "lost"
    /\ UNCHANGED <<deployed, par, rep, pending, run, sent, obs, reported, threw>>

NextSeqLost == NextSeq \/ SeqRecordLost

\* the sequence in a context where its record can go missing
SpecSeqLost == InitSeq /\ [][NextSeqLost]_vars

\* the record and the node show one array whenever they share it
SeqAliasOK ==
    (seq.aliased /\ HasField(global.sequence_result, "child_status"))
        => global.sequence_result.child_status = seq.child_status

CompletionType == {"all_success", "any_success", "all_complete"}

InitPar ==
    /\ InitCommon
    /\ deployed = "parallel"
    /\ \E n \in 0..MaxParChildren, ct \in CompletionType : par = ParNode0(n, ct)
    /\ seq = SeqNode0(0)
    /\ rep = RepNode0(Num(DefaultRepeatCount), "fixed")

\* node.on('input') of bt-parallel
ParInput ==
    /\ run < MaxRuns
    /\ LET w == Par_input(World(par, global))
       IN  /\ par' = w.node
           /\ global' = w.g
           /\ pending' = pending \cup Items("parallel", w.sent, run + 1)
           /\ sent' = w.sent
    /\ obs' = <<>>
    /\ reported' = {}
    /\ run' = run + 1
    /\ last' = "input"
    /\ UNCHANGED <<deployed, seq, rep, threw>>

\* one tick of the setInterval timer of bt-parallel
ParPoll ==
    /\ par.timer
    /\ LET w == Par_check_child_status(World(par, global))
       IN  par' = w.node /\ global' = w.g
    /\ last' = "poll"
    /\ UNCHANGED <<deployed, seq, rep, pending, run, sent, obs, reported, threw>>

\* node.on('close') of bt-parallel
ParClose ==
    /\ LET w == Par_close(World(par, global))
       IN  par' = w.node /\ global' = w.g
    /\ last' = "close"
    /\ UNCHANGED <<deployed, seq, rep, pending, run, sent, obs, reported, threw>>

\* a dispatched child finishes and reports
ParChildReport ==
    \E item \in pending, st \in Outcome :
        /\ item.kind = "parallel"
        /\ HasField(global.parallel_result, "child_status")
        /\ LET w == ParChildWrite(World(par, global), item.tag, st)
           IN  par' = w.node /\ global' = w.g
        /\ pending' = pending \ {item}
        /\ last' = "report"
        /\ UNCHANGED <<deployed, seq, rep, run, sent, obs, reported, threw>>

NextPar == ParInput \/ ParPoll \/ ParClose \/ ParChildReport

SpecPar == InitPar /\ [][NextPar]_vars

ParAliasOK ==
    (par.aliased /\ HasField(global.parallel_result, "child_status"))
        => global.parallel_result.child_status = par.child_status

TerminationCondition == {"fixed", "untilSuccess", "exitOnFailure"}

\* the values of config.repeatCount explored
RepeatCounts == {Num(0), NumText(0), Num(3), Num(5)}

\* the texts found under the override key
OverrideTexts == {<<"a", "b", "c">>, <<"-", "1">>, <<"0">>, <<"1">>}

InitRep ==
    /\ InitCommon
    /\ deployed = "repeat"
    /\ \E c \in RepeatCounts, tc \in TerminationCondition : rep = RepNode0(c, tc)
    /\ seq = SeqNode0(0)
    /\ par = ParNode0(0, "all_success")

\* node.on('input') of bt-repeat; a trigger that finds the node running is dropped
RepInput ==
    /\ IF Rep_busy(rep)
       THEN UNCHANGED <<rep, global, pending, run, sent, obs, reported>>
       ELSE /\ run < MaxRuns
            /\ LET w == Rep_input(World(rep, global))
               IN  /\ rep' = w.node
                   /\ global' = w.g
                   /\ pending' = pending \cup Items("repeat", w.sent, run + 1)
                   /\ sent' = w.sent
            /\ obs' = <<>>
            /\ reported' = {}
            /\ run' = run + 1
    /\ last' = "input"
    /\ UNCHANGED <<deployed, seq, par, threw>>

\* one tick of the setInterval timer of bt-repeat
RepPoll ==
    /\ rep.timer
    /\ LET w == Rep_check_child_state(World(rep, global))
       IN  /\ w.node.current_count <= MaxDispatch
           /\ rep' = w.node
           /\ global' = w.g
           /\ pending' = pending \cup Items("repeat", w.sent, run)
           /\ sent' = sent \o w.sent
           /\ obs' = obs \o w.obs
    /\ last' = "poll"
    /\ UNCHANGED <<deployed, seq, par, run, reported, threw>>

\* node.on('close') of bt-repeat
RepClose ==
    /\ LET w == Rep_close(World(rep, global))
       IN  rep' = w.node /\ global' = w.g
    /\ last' = "close"
    /\ UNCHANGED <<deployed, seq, par, pending, run, sent, obs, reported, threw>>

\* the work item sent first among those in flight
Oldest(items) ==
    CHOOSE x \in items :
        \A y \in items : x.run < y.run \/ (x.run = y.run /\ x.tag <= y.tag)

\* A dispatched child finishes and reports.  Every work item of a repeat node
\* goes to the same child, which stores its outcome in the same field whatever
\* the iteration, so the reports are taken in the order of dispatch: another
\* order writes the same values to the context.
RepChildReport ==
    \E st \in Outcome :
        /\ pending # {}
        /\ global.repeat_result # Undefined
        /\ LET w == RepChildWrite(World(rep, global), st)
           IN  rep' = w.node /\ global' = w.g
        /\ pending' = pending \ {Oldest(pending)}
        /\ last' = "report"
        /\ UNCHANGED <<deployed, seq, par, run, sent, obs, reported, threw>>

\* another flow stores or removes the repeat count override; the key is read by
\* the input handler alone, and only when the node is not running
RepSetOverride ==
    /\ ~rep.is_running
    /\ \E v \in {NoValue} \cup {Text(t) : t \in OverrideTexts} :
          global' = [global EXCEPT !.repeat_count = v]
    /\ last' = "override"
    /\ UNCHANGED <<deployed, seq, par, rep, pending, run, sent, obs, reported, threw>>

NextRep == RepInput \/ RepPoll \/ RepClose \/ RepChildReport \/ RepSetOverride

SpecRep == InitRep /\ [][NextRep]_vars

\* the outcome the child reports for iterations 1, 2 and 3
ScriptFSF == <<"failure", "success", "failure">>

InitRepFSF ==
    /\ InitCommon
    /\ deployed = "repeat"
    /\ rep = RepNode0(Num(DefaultRepeatCount), "fixed")
    /\ seq = SeqNode0(0)
    /\ par = ParNode0(0, "all_success")

\* the child reports for the work item sent first, with the outcome scripted for
\* its iteration
RepChildReportFSF ==
    /\ pending # {}
    /\ global.repeat_result # Undefined
    /\ Oldest(pending).tag \in 1..Len(ScriptFSF)
    /\ LET w == RepChildWrite(World(rep, global), ScriptFSF[Oldest(pending).tag])
       IN  rep' = w.node /\ global' = w.g
    /\ pending' = pending \ {Oldest(pending)}
    /\ last' = "report"
    /\ UNCHANGED <<deployed, seq, par, run, sent, obs, reported, threw>>

NextRepFSF == RepInput \/ RepPoll \/ RepClose \/ RepChildReportFSF

\* a repeat node with fixed, count 3, whose child fails, succeeds, fails
SpecRepFSF == InitRepFSF /\ [][NextRepFSF]_vars

\* a flow with one coordinator, of any of the three types
InitAny == InitSeq \/ InitPar \/ InitRep

NextAny ==
    \/ deployed = "sequence" /\ NextSeq
    \/ deployed = "parallel" /\ NextPar
    \/ deployed = "repeat" /\ NextRep

SpecAny == InitAny /\ [][NextAny]_vars

\* node.repeat_count as the constructor leaves it for a configured value
CountFor(repeatCount) ==
    IF Falsy(repeatCount) THEN DefaultRepeatCount ELSE repeatCount.val

\* One run left to itself: a single trigger, no close, and a repeat node under
\* fixed or exitOnFailure whose count the dispatch bound lets it reach.
InitLive ==
    \/ InitSeq
    \/ InitPar
    \/ /\ InitRep
       /\ rep.terminationCondition \in {"fixed", "exitOnFailure"}
       /\ CountFor(rep.config_repeatCount) <= MaxDispatch

SeqLive == deployed = "sequence" /\ ((run = 0 /\ SeqInput) \/ SeqPoll \/ SeqChildReport)

ParLive == deployed = "parallel" /\ ((run = 0 /\ ParInput) \/ ParPoll \/ ParChildReport)

RepLive == deployed = "repeat" /\ ((run = 0 /\ RepInput) \/ RepPoll \/ RepChildReport)

NextLive == SeqLive \/ ParLive \/ RepLive

\* The interval timer keeps firing while it is set, and every child dispatched
\* finishes and stores an outcome.
FairLive ==
    /\ WF_vars(deployed = "sequence" /\ SeqPoll)
    /\ WF_vars(deployed = "sequence" /\ SeqChildReport)
    /\ WF_vars(deployed = "parallel" /\ ParPoll)
    /\ WF_vars(deployed = "parallel" /\ ParChildReport)
    /\ WF_vars(deployed = "repeat" /\ RepPoll)
    /\ WF_vars(deployed = "repeat" /\ RepChildReport)

SpecLive == InitLive /\ [][NextLive]_vars /\ FairLive

(* ======================= properties: bt-sequence ======================= *)

SeqStatus ==
    IF global.sequence_result = Undefined THEN "none" ELSE global.sequence_result.status

\* the polls of this run have read success for every slot, in order
SeqAllSucceeded ==
    /\ Len(obs) = seq.child_count
    /\ \A k \in 1..Len(obs) : obs[k] = [tag |-> k - 1, st |-> "success"]

\* a poll of this run has read failure
SeqFailureObserved == Len(obs) >= 1 /\ obs[Len(obs)].st = "failure"

\* C1: within one run of the sequence, slots are dispatched in increasing index
\* order from 0, each at most once; slot i+1 is dispatched only once a poll has
\* read success for slot i; once a poll has read failure nothing more is
\* dispatched; and when every report of the run came from a child of this run,
\* nothing is dispatched past a slot whose child reported failure.
C1_SequenceOrder ==
    /\ \A j \in 1..Len(sent) : sent[j] = j - 1
    /\ \A j \in 2..Len(sent) :
          \E k \in 1..Len(obs) : obs[k] = [tag |-> j - 2, st |-> "success"]
    /\ \A k \in 1..Len(obs) :
          obs[k].st = "failure" => (k = Len(obs) /\ Len(sent) = obs[k].tag + 1)
    /\ (\A r \in reported : r.run = run) =>
          \A r \in reported : r.st = "failure" => Len(sent) <= r.tag + 1

\* slot 0 succeeded, slot 1 failed, slot 2 was never dispatched
C1_Witness ==
    /\ seq.child_count = 3
    /\ sent = <<0, 1>>
    /\ Len(obs) = 2
    /\ obs[2] = [tag |-> 1, st |-> "failure"]
    /\ seq.is_completed

\* C2: a run of a sequence with N >= 1 slots has final status success exactly
\* when the polls read success for all N slots in order (current_index is then
\* N), and failure exactly when a poll read failure for the current slot; the
\* record's status and the child-signal key both carry the final status.
C2_SequenceFinalStatus ==
    seq.child_count >= 1 =>
        /\ (SeqStatus = "success") <=> SeqAllSucceeded
        /\ (SeqStatus = "failure") <=> SeqFailureObserved
        /\ SeqAllSucceeded => seq.current_index = seq.child_count
        /\ SeqStatus \in Outcome =>
              /\ global.child_result = SeqStatus
              /\ seq.is_completed
              /\ ~seq.is_running

\* three slots, all polled as success
C2_Witness ==
    /\ seq.child_count = 3
    /\ SeqStatus = "success"
    /\ Len(obs) = 3
    /\ global.child_result = "success"

(* ======================= properties: bt-parallel ======================= *)

ParRec == global.parallel_result

ParCompletedAs(st) ==
    /\ par.is_completed
    /\ ~par.is_running
    /\ ~par.timer
    /\ ParRec.status = st
    /\ global.child_result = st

ParStillRunning ==
    /\ par.is_running
    /\ ~par.is_completed
    /\ par.timer
    /\ ParRec.status = "running"

ParSuccesses == CountOf(ParRec.child_status, "success")
ParFailures == CountOf(ParRec.child_status, "failure")

\* C3: right after a poll under all_success, the run has completed as failure if
\* some slot is failure (whatever the other slots are), has completed as success
\* if every slot is success, and is still running otherwise.
C3_AllSuccess ==
    (par.completion_type = "all_success" /\ last = "poll") =>
        /\ ParFailures > 0 => ParCompletedAs("failure")
        /\ (ParFailures = 0 /\ ParSuccesses = par.child_count) => ParCompletedAs("success")
        /\ (ParFailures = 0 /\ ParSuccesses < par.child_count) => ParStillRunning

\* one slot failed while the other was still running: failure at once
C3_Witness ==
    /\ par.completion_type = "all_success"
    /\ last = "poll"
    /\ par.child_count = 2
    /\ ParFailures = 1
    /\ CountOf(ParRec.child_status, "running") = 1
    /\ ParCompletedAs("failure")

\* C4: right after a poll under any_success, the run has completed as success if
\* some slot is success (whatever the other slots are), has completed as failure
\* if every slot is failure, and is still running otherwise.
C4_AnySuccess ==
    (par.completion_type = "any_success" /\ last = "poll") =>
        /\ ParSuccesses > 0 => ParCompletedAs("success")
        /\ (ParSuccesses = 0 /\ ParFailures = par.child_count) => ParCompletedAs("failure")
        /\ (ParSuccesses = 0 /\ ParFailures < par.child_count) => ParStillRunning

\* one slot succeeded while the other was still running: success at once
C4_Witness ==
    /\ par.completion_type = "any_success"
    /\ last = "poll"
    /\ par.child_count = 2
    /\ ParSuccesses = 1
    /\ CountOf(ParRec.child_status, "running") = 1
    /\ ParCompletedAs("success")

\* C5: under all_complete a terminal record never shows a slot that is running
\* or waiting; right after a poll the run has completed if every slot is success
\* or failure, as success if some slot is success and as failure otherwise, and
\* is still running if some slot is not done.
C5_AllComplete ==
    par.completion_type = "all_complete" =>
        /\ (ParRec # Undefined /\ ParRec.status \in Outcome) =>
              \A i \in DOMAIN ParRec.child_status : ParRec.child_status[i] \in Outcome
        /\ last = "poll" =>
              /\ (ParSuccesses + ParFailures = par.child_count) =>
                    ParCompletedAs(IF ParSuccesses > 0 THEN "success" ELSE "failure")
              /\ (ParSuccesses + ParFailures < par.child_count) => ParStillRunning

\* one success and one failure: complete, as success
C5_Witness ==
    /\ par.completion_type = "all_complete"
    /\ last = "poll"
    /\ par.child_count = 2
    /\ ParSuccesses = 1
    /\ ParFailures = 1
    /\ ParCompletedAs("success")

(* ======================== properties: bt-repeat ======================== *)

RepRec == global.repeat_result

RepStatus == IF RepRec = Undefined THEN "none" ELSE RepRec.status

\* the record is the final record of the latest run
RepFinished == RepStatus \in Outcome

LastObs == obs[Len(obs)]

\* the k-th outcome a run reads is read while iteration k is the current one
RepObsInStep == \A k \in 1..Len(obs) : obs[k].tag = k

\* C6: under fixed with total_count N >= 1, after each outcome read the run goes
\* on (sends the next work item) iff the count is below N, whatever the outcome;
\* a finished run has sent exactly the work items 1..N; its final status is
\* success iff a success was recorded.
C6_Fixed ==
    (rep.terminationCondition = "fixed" /\ rep.repeat_count >= 1) =>
        /\ RepObsInStep
        /\ \A k \in 1..Len(obs) :
              IF k < rep.repeat_count
              THEN Len(sent) >= k + 1
              ELSE k = Len(obs) /\ Len(sent) = k /\ RepFinished
        /\ RepFinished =>
              /\ sent = [j \in 1..rep.repeat_count |-> j]
              /\ Len(obs) = rep.repeat_count
              /\ RepRec.total_count = rep.repeat_count
              /\ (RepStatus = "success") <=> (\E k \in 1..Len(obs) : obs[k].st = "success")
              /\ (RepStatus = "success") <=> (Len(RepRec.success_records) > 0)
              /\ global.child_result = RepStatus

\* three iterations, success then failures: three work items, final success
C6_Witness ==
    /\ rep.terminationCondition = "fixed"
    /\ rep.repeat_count = 3
    /\ RepFinished
    /\ sent = <<1, 2, 3>>
    /\ Len(obs) = 3
    /\ obs[1].st = "success"
    /\ obs[3].st = "failure"
    /\ RepStatus = "success"

\* C7: fixed, count 3, the child reporting failure, success, failure for
\* iterations 1, 2, 3: whenever the first run has finished, its record has status
\* success, success_records = [2] and failure_records = [1, 3].
C7_FixedFSF ==
    (run = 1 /\ RepFinished) =>
        /\ RepRec.status = "success"
        /\ RepRec.success_records = <<2>>
        /\ RepRec.failure_records = <<1, 3>>

\* C8: under exitOnFailure the run goes on only after reading a success below the
\* count ceiling; it ends on the first failure read, or on the success read at
\* the ceiling, with no further work item sent, and its final status is the last
\* outcome read.
C8_ExitOnFailure ==
    rep.terminationCondition = "exitOnFailure" =>
        /\ RepObsInStep
        /\ \A k \in 1..Len(obs) :
              IF obs[k].st = "success" /\ k < rep.repeat_count
              THEN Len(sent) >= k + 1
              ELSE /\ k = Len(obs)
                   /\ Len(sent) = k
                   /\ RepFinished
                   /\ RepStatus = obs[k].st
                   /\ global.child_result = obs[k].st
        /\ (RepFinished /\ Len(obs) >= 1) => RepStatus = LastObs.st

\* count 5, outcomes success, success, failure: three work items, final failure
C8_Witness ==
    /\ rep.terminationCondition = "exitOnFailure"
    /\ rep.repeat_count = 5
    /\ Len(obs) = 3
    /\ obs[1].st = "success"
    /\ obs[2].st = "success"
    /\ obs[3].st = "failure"
    /\ sent = <<1, 2, 3>>
    /\ RepStatus = "failure"

\* every outcome read that is not success is followed by another work item
RepRetriesEveryFailure ==
    \A k \in 1..Len(obs) : obs[k].st # "success" => Len(sent) >= k + 1

\* C9 as stated: under untilSuccess every outcome read that is not success is
\* followed by another work item, whatever the count; the run completes only on
\* a poll that reads success, and its final status is then success.
C9_AsStated ==
    rep.terminationCondition = "untilSuccess" =>
        /\ RepRetriesEveryFailure
        /\ RepFinished =>
              /\ Len(obs) >= 1
              /\ LastObs.st = "success"
              /\ RepStatus = "success"

\* C9: under untilSuccess every outcome read that is not success is followed by
\* another work item, whatever the count; a run with total_count >= 1 completes
\* only on a poll that reads success, and its final status is then success; a
\* run with total_count = 0 completes in the trigger, as success, with no poll.
C9_UntilSuccess ==
    rep.terminationCondition = "untilSuccess" =>
        /\ RepRetriesEveryFailure
        /\ (RepFinished /\ RepRec.total_count >= 1) =>
              /\ Len(obs) >= 1
              /\ LastObs.st = "success"
              /\ \A k \in 1..(Len(obs) - 1) : obs[k].st = "failure"
              /\ Len(sent) = Len(obs)
              /\ RepStatus = "success"
        /\ (RepFinished /\ RepRec.total_count = 0) =>
              /\ obs = <<>>
              /\ sent = <<>>
              /\ RepStatus = "success"

\* count 3: three failures, a fourth work item past the ceiling, then success
C9_Witness ==
    /\ rep.terminationCondition = "untilSuccess"
    /\ rep.repeat_count = 3
    /\ sent = <<1, 2, 3, 4>>
    /\ Len(obs) = 4
    /\ obs[3].st = "failure"
    /\ obs[4].st = "success"
    /\ RepStatus = "success"

\* C10: a repeat node configured with count 0 (and no override in the context):
\* its first trigger sends no work item, completes at once as success without
\* starting the poll timer, and writes nothing under the child-signal key.
C10_ConfiguredZero ==
    (rep.config_repeatCount.val = 0 /\ run = 1 /\ last = "input"
       /\ ~global.repeat_count.defined) =>
        /\ sent = <<>>
        /\ ~rep.timer
        /\ RepStatus = "success"
        /\ global.child_result = "undefined"

\* C11: a trigger that reaches the repeat node while a run is active (is_running)
\* changes nothing: no work item is sent, the context is not written, and
\* current_count, success_records, failure_records, repeat_count and the poll
\* timer stay as they are, so the run goes on from the very state it was in.
C11_RejectsWhileRunning ==
    [][(rep.is_running /\ last' = "input") =>
           /\ rep' = rep
           /\ global' = global
           /\ pending' = pending
           /\ sent' = sent
           /\ obs' = obs
           /\ run' = run]_vars

\* a trigger arrived after the run had read an outcome and sent the next item
C11_Witness ==
    /\ last = "input"
    /\ rep.is_running
    /\ rep.timer
    /\ Len(obs) >= 1
    /\ Len(sent) >= 2

\* the child of slot i dispatched by the latest run has stored outcome st
SeqReportedThisRun(i, st) ==
    \E r \in reported : r.run = run /\ r.tag = i /\ r.st = st

\* C12: a trigger of the sequence, also one that arrives mid-run, starts a run
\* with slot 0 dispatched and every other slot waiting; every outcome a poll of
\* the new run reads, and every outcome in the new run's final record, was
\* stored by a child that the new run dispatched.
C12_CleanReset ==
    /\ (last = "input" /\ seq.child_count >= 1) =>
          /\ seq.current_index = 0
          /\ sent = <<0>>
          /\ global.sequence_result.child_status =
                 [i \in 0..(seq.child_count - 1) |-> IF i = 0 THEN "running" ELSE "waiting"]
    /\ \A k \in 1..Len(obs) : SeqReportedThisRun(obs[k].tag, obs[k].st)
    /\ SeqStatus \in Outcome =>
          \A i \in DOMAIN global.sequence_result.child_status :
              global.sequence_result.child_status[i] \in Outcome =>
                  SeqReportedThisRun(i, global.sequence_result.child_status[i])

\* the count the node was configured with (the constructor's value)
ConfiguredCount ==
    IF Falsy(rep.config_repeatCount) THEN DefaultRepeatCount
    ELSE rep.config_repeatCount.val

\* the value under the override key is present, parses, and is not negative
OverrideUsable(v) ==
    v.defined /\ ~ParseInt(v.text).nan /\ ParseInt(v.text).val >= 0

\* C13: right after a trigger of the repeat node that found the override key
\* absent, unparsable or negative, the run's total_count is the configured
\* count, whatever earlier triggers of the node found under the key.
C13_OverrideFallback ==
    (last = "input" /\ run >= 1 /\ ~OverrideUsable(global.repeat_count)) =>
        RepRec.total_count = ConfiguredCount

\* C14: a poll tick of the sequence that finds its record missing, or without a
\* child_status field, raises no error and changes neither the node nor the
\* context, and sends nothing; the timer stays, so the next tick polls again.
C14_MissingRecordIsRunning ==
    [][(last' = "poll" /\ ~HasField(global.sequence_result, "child_status")) =>
           /\ ~threw'
           /\ seq' = seq
           /\ global' = global
           /\ sent' = sent]_vars

\* the record under the parallel node's key is the final record of a run
ParFinal ==
    /\ par.is_completed
    /\ ParRec # Undefined
    /\ ParRec.status \in Outcome

\* C15: once a run of the parallel node has completed, its record (status and
\* child status list) is the same after every later step that is not a trigger:
\* a poll tick, a close, or the report of a child that finishes late.
C15_FinalRecordStable ==
    [][(ParFinal /\ last' # "input") =>
           global'.parallel_result = global.parallel_result]_vars

(* ===================== properties: any coordinator ===================== *)

\* the coordinator of the flow
Coord ==
    CASE deployed = "sequence" -> seq
      [] deployed = "parallel" -> par
      [] OTHER -> rep

\* the record under the coordinator's key
CoordRec ==
    CASE deployed = "sequence" -> global.sequence_result
      [] deployed = "parallel" -> global.parallel_result
      [] OTHER -> global.repeat_result

\* the node's own fields, without the child status array it shares with the record
Ctl(node) == [f \in (DOMAIN node) \ {"child_status", "aliased"} |-> node[f]]

\* the state a close leaves: timer stopped, not running, marked completed
Aborted == ~Coord.timer /\ ~Coord.is_running /\ Coord.is_completed

\* C16: a close of any coordinator, in any state, leaves the poll timer stopped
\* and the run marked aborted; from then until the next trigger no work item is
\* sent, the context changes only by what children (or other flows) write, the
\* node's own fields stay, and a further close changes nothing at all.
C16_Teardown ==
    /\ [](last = "close" => Aborted)
    /\ [][(Aborted /\ last' # "input") =>
              /\ sent' = sent
              /\ pending' \subseteq pending
              /\ Ctl(Coord') = Ctl(Coord)
              /\ (last' \notin {"report", "override"}) => global' = global
              /\ (last' = "close") => (seq' = seq /\ par' = par /\ rep' = rep)]_vars

\* a sequence closed mid-run whose child reported afterwards: the record still
\* says running and nothing was sent after the first work item
C16_Witness ==
    /\ deployed = "sequence"
    /\ Aborted
    /\ last = "report"
    /\ run = 1
    /\ sent = <<0>>
    /\ obs = <<>>
    /\ CoordRec.status = "running"
    /\ CoordRec.child_status[0] \in Outcome

\* C17: while the child of an iteration of the latest run of the repeat node has
\* not reported, no poll reads an outcome for that iteration, no later work
\* item is sent, and the record does not become terminal.
C17_NoTimeout ==
    \A item \in pending :
        (item.kind = "repeat" /\ item.run = run) =>
            /\ \A k \in 1..Len(obs) : obs[k].tag # item.tag
            /\ Len(sent) <= item.tag
            /\ ~RepFinished

\* C18: whenever the sequence's record shows a terminal status, the poll timer
\* is stopped, the node is marked completed, and the child-signal key holds that
\* same status; a poll tick after completion changes neither node nor context.
C18_Completion ==
    /\ [](SeqStatus \in Outcome =>
              /\ ~seq.timer
              /\ seq.is_completed
              /\ ~seq.is_running
              /\ global.child_result = SeqStatus)
    /\ [][(SeqStatus \in Outcome /\ last' = "poll") =>
              (seq' = seq /\ global' = global /\ sent' = sent)]_vars

\* C19: a slot of the sequence for which a poll of the latest run has recorded
\* success or failure keeps that status in node.child_status until the next
\* trigger: it is neither running nor waiting again, nor the other outcome.
C19_SlotMonotonic ==
    \A k \in 1..Len(obs) : seq.child_status[obs[k].tag] = obs[k].st

\* C20: right after a trigger of a sequence with no slots, no work item has
\* been sent, no poll has run, the node is marked completed, and the record and
\* the child-signal key both hold success.
C20_EmptySequence ==
    (seq.child_count = 0 /\ last = "input") =>
        /\ sent = <<>>
        /\ pending = {}
        /\ obs = <<>>
        /\ seq.is_completed
        /\ ~seq.is_running
        /\ SeqStatus = "success"
        /\ global.sequence_result.success_indices = <<>>
        /\ global.sequence_result.failure_indices = <<>>
        /\ global.child_result = "success"

\* an empty sequence just triggered for the first time
C20_Witness ==
    /\ deployed = "sequence"
    /\ seq.child_count = 0
    /\ last = "input"
    /\ run = 1
    /\ SeqStatus = "success"
    /\ global.child_result = "success"

\* the field of the record that the repeat node's poll reads holds no outcome
RepFieldReset ==
    ~HasField(RepRec, "child_status") \/ RepRec.child_status = "running"

\* C21: every step of the repeat node that sends a work item leaves the field
\* the poll reads without an outcome, and an outcome is recorded for iteration
\* k >= 2 of the latest run only once the child of that iteration has reported.
C21_FreshOutcome ==
    /\ [][(Len(sent') > Len(sent) \/ (run' # run /\ sent' # <<>>)) => RepFieldReset']_vars
    /\ [](\A k \in 1..Len(obs) :
              obs[k].tag >= 2 =>
                  [kind |-> "repeat", tag |-> obs[k].tag, run |-> run] \notin pending)

\* C22: in every state of any of the three coordinators where is_completed
\* holds (the run has finished or the node was closed), the poll timer is
\* stopped.
C22_NoTimerWhenCompleted ==
    Coord.is_completed => ~Coord.timer

\* C23: right after the step that writes a final record of the sequence,
\* completed_children is the number of slots holding success or failure, and is
\* at most total_children.
C23_CompletedChildren ==
    (SeqStatus \in Outcome /\ last \in {"input", "poll"}) =>
        /\ global.sequence_result.completed_children =
               CountOf(global.sequence_result.child_status, "success")
                   + CountOf(global.sequence_result.child_status, "failure")
        /\ global.sequence_result.completed_children
               <= global.sequence_result.total_children

\* the members of a list
Range(list) == {list[j] : j \in 1..Len(list)}

\* C24: in every final record of the repeat node, success_records and
\* failure_records hold numbers of iterations sent in that run, no number is in
\* both, and success_count + failure_count is the number of work items sent.
C24_RecordsMatchDispatches ==
    RepFinished =>
        /\ Range(RepRec.success_records) \subseteq Range(sent)
        /\ Range(RepRec.failure_records) \subseteq Range(sent)
        /\ Range(RepRec.success_records) \cap Range(RepRec.failure_records) = {}
        /\ RepRec.success_count + RepRec.failure_count = Len(sent)

\* the record under the coordinator's key shows a terminal status
Terminal == CoordRec # Undefined /\ CoordRec.status \in Outcome

\* C25: a run of any coordinator (repeat under fixed or exitOnFailure) that is
\* neither re-triggered nor closed, whose timer keeps ticking and whose
\* children all store an outcome, eventually shows a terminal status with the
\* poll timer stopped.
C25_Termination ==
    [](run = 1 => <>(Terminal /\ ~Coord.timer))

====
